---- MODULE Spec2Model ----
(***************************************************************************)
(* Model of src/main.cpp: a word counter that reads a text file in batches *)
(* of BATCH_SIZE lines, counts the words of each batch with one map thread *)
(* per line range (countWordsInChunk), merges the per-thread tables into   *)
(* globalCounts with one merge thread per table under striped locks        *)
(* (mergeWorker), then sorts the table and writes output.txt.              *)
(*                                                                         *)
(* Characters are one-character strings, a word or a line is a sequence of *)
(* characters, a table (std::unordered_map) is a function whose DOMAIN is  *)
(* the set of keys it holds.                                               *)
(***************************************************************************)
EXTENDS Integers, Sequences, FiniteSets, TLC

(* ---------------------------- bounds ----------------------------------- *)

\* lines per batch (main.cpp:83 sets 100000; the model runs a small value)
BATCH_SIZE ==
    2

\* largest value std::thread::hardware_concurrency() returns in the model
MaxThreads ==
    3

\* longest input file built from LineSet, in lines
MaxFileLines ==
    3

(* ---------------------------- characters ------------------------------- *)

\* the value of each character as unsigned char; "#E4" is the byte 0xE4
ByteOf ==
    ("a" :> 97) @@ ("b" :> 98) @@ ("c" :> 99) @@ ("e" :> 101) @@
    ("h" :> 104) @@ ("n" :> 110) @@ ("r" :> 114) @@ ("s" :> 115) @@
    ("t" :> 116) @@ ("A" :> 65) @@ ("C" :> 67) @@ ("E" :> 69) @@
    ("H" :> 72) @@ ("T" :> 84) @@ (" " :> 32) @@ ("!" :> 33) @@
    ("-" :> 45) @@ ("." :> 46) @@ ("1" :> 49) @@ ("#E4" :> 228)

\* std::isalpha in the "C" locale (no setlocale call is made)
IsAlpha(ch) ==
    ByteOf[ch] \in (65..90) \cup (97..122)

\* std::isspace in the "C" locale
IsSpace(ch) ==
    ByteOf[ch] \in {32} \cup (9..13)

\* the test of lines 43-46: the character extends the current word
InWord(ch) ==
    /\ IsAlpha(ch) \/ ByteOf[ch] >= 128
    /\ ch # "-"
    /\ ~IsSpace(ch)

\* the character appended to the word at line 48
Accumulate(ch) ==
    ch

(* ---------------------------- tables ----------------------------------- *)

EmptyTable ==
    [k \in {} |-> 0]

\* localCounts[word]++
Increment(table, word) ==
    IF word \in DOMAIN table
    THEN [table EXCEPT ![word] = @ + 1]
    ELSE [k \in DOMAIN table \cup {word} |->
            IF k = word THEN 1 ELSE table[k]]

RECURSIVE ScanLine(_, _, _, _)
\* the loop over the characters of a line (lines 40-57): word is the word
\* being built, table the counts so far
ScanLine(line, i, word, table) ==
    IF i > Len(line)
    THEN IF word # <<>> THEN Increment(table, word) ELSE table
    ELSE IF InWord(line[i])
         THEN ScanLine(line, i + 1, Append(word, Accumulate(line[i])), table)
         ELSE IF word # <<>>
              THEN ScanLine(line, i + 1, <<>>, Increment(table, word))
              ELSE ScanLine(line, i + 1, word, table)

\* one iteration of the loop of line 38
CountLine(table, line) ==
    ScanLine(line, 1, <<>>, table)

RECURSIVE HashFrom(_, _, _)
HashFrom(word, i, h) ==
    IF i > Len(word) THEN h
    ELSE HashFrom(word, i + 1, (h * 31 + ByteOf[word[i]]) % 65536)

\* std::hash<std::string>: some fixed function of the characters of the key
Hash(word) ==
    HashFrom(word, 1, 7)

\* the stripe of a key (line 113)
StripeOf(word, stripes) ==
    Hash(word) % stripes


\* std::string operator< : compares the characters as unsigned char, a
\* proper prefix is smaller
RECURSIVE StringLess(_, _, _)
StringLess(a, b, i) ==
    IF i > Len(b) THEN FALSE
    ELSE IF i > Len(a) THEN TRUE
    ELSE IF ByteOf[a[i]] < ByteOf[b[i]] THEN TRUE
    ELSE IF ByteOf[a[i]] > ByteOf[b[i]] THEN FALSE
    ELSE StringLess(a, b, i + 1)

\* a comparator that orders the pairs by their counts
PairLess_ByCount(p, q) ==
    p[2] < q[2]

\* the comparator of std::sort (line 200): a.first < b.first
PairLess(p, q) ==
    StringLess(p[1], q[1], 1)

RECURSIVE InsertPair(_, _)
InsertPair(sorted, p) ==
    IF sorted = <<>> THEN <<p>>
    ELSE IF PairLess(p, Head(sorted)) THEN <<p>> \o sorted
    ELSE <<Head(sorted)>> \o InsertPair(Tail(sorted), p)

RECURSIVE SortPairs(_, _)
\* std::sort(sortedWords.begin(), sortedWords.end(), comparator)
SortPairs(pairs, sorted) ==
    IF pairs = <<>> THEN sorted
    ELSE SortPairs(Tail(pairs), InsertPair(sorted, Head(pairs)))

RECURSIVE Enumerate(_, _)
\* the loop of lines 197-198: the pairs of a table in the (unspecified)
\* order in which the container iterates
Enumerate(table, keys) ==
    IF keys = {} THEN <<>>
    ELSE LET k == CHOOSE x \in keys : TRUE
         IN  <<<<k, table[k]>>>> \o Enumerate(table, keys \ {k})

\* the division without the rounding up
LinesPerThread_Floor(totalLines, threads) ==
    totalLines \div threads

\* lines 131 and 163: lines per map thread, rounded up
LinesPerThread(totalLines, threads) ==
    (totalLines + threads - 1) \div threads

\* line 139 / 170
RangeStart(t, totalLines, threads) ==
    t * LinesPerThread(totalLines, threads)

\* line 140 / 171: std::min(start + linesPerThread, totalLines)
RangeEnd(t, totalLines, threads) ==
    LET e == RangeStart(t, totalLines, threads)
               + LinesPerThread(totalLines, threads)
    IN  IF e < totalLines THEN e ELSE totalLines

\* the filter of line 110 left out: every worker takes every table
Assigned_NoFilter(i, workerId, threads) ==
    TRUE

\* line 110: merge worker workerId handles table i
Assigned(i, workerId, threads) ==
    i % threads = workerId

\* line 128: the batch is handed to the map stage
BatchFull(b) ==
    Len(b) = BATCH_SIZE

\* the batch is not cleared
ClearBatch_Keep(b) ==
    b

\* line 150: batch.clear()
ClearBatch(b) ==
    <<>>

\* extra arguments are accepted
ArgcOk_AtLeast(n) ==
    n >= 2

\* line 62: the argument count is accepted
ArgcOk(n) ==
    n = 2

\* globalCounts[key]: operator[] links a node for an absent key.  The node
\* is linked into the chain read when the lookup missed (snap).  Stripe
\* locks of different stripes do not order two insertions, so keys linked
\* by another thread since that read are unlinked again by this write.
LinkNode(table, snap, key) ==
    [k \in (snap \cap DOMAIN table) \cup {key} |->
        IF k = key THEN 0 ELSE table[k]]

\* globalCounts[key] += n on the node operator[] returned; a node that is
\* no longer linked takes the addition with it
AddToNode(table, key, n) ==
    IF key \in DOMAIN table THEN [table EXCEPT ![key] = @ + n] ELSE table

\* the table is left as it is
ClearTable_Keep(table) ==
    table

\* line 134 / 165: m.clear()
ClearTable(table) ==
    EmptyTable

\* a cycle is run whether or not lines are left
HasLeftover_Always(b) ==
    TRUE

\* line 161: if (!batch.empty())
HasLeftover(b) ==
    b # <<>>

\* join returns whether or not the thread has returned
Finished_Any(worker) ==
    TRUE

\* w.join() returns once the thread function has returned
Finished(worker) ==
    worker.at = "done"

\* the loop of line 149 / 180 is left before every map thread is joined
MapsJoined_Skip(idx, workers) ==
    TRUE

\* line 149 / 180: the loop over mapWorkers has joined every thread
MapsJoined(idx, workers) ==
    idx = Len(workers)

\* line 156 / 185: the loop over mergeWorkers has joined every thread
MergesJoined(idx, workers) ==
    idx = Len(workers)

\* one merge thread more than there are tables
MergeThreads_OneMore(threads) ==
    threads + 1

\* line 154 / 183: the number of merge threads started, w < threadCount
MergeThreads(threads) ==
    threads

\* lock returns at once, whoever holds the mutex
Unlocked_Always(holders) ==
    TRUE

\* std::mutex::lock returns only when no thread holds the mutex
Unlocked(holders) ==
    holders = {}

\* the print mutex stays locked
ReleaseIo_Keep(holders, who) ==
    holders

\* lines 37 and 108: the lock_guard on ioMutex goes out of scope
ReleaseIo(holders, who) ==
    holders \ {who}

\* the stripe mutex stays locked
ReleaseStripe_Keep(holders, who) ==
    holders

\* line 116: the lock_guard on the stripe mutex goes out of scope
ReleaseStripe(holders, who) ==
    holders \ {who}

(* ---------------------------- inputs ----------------------------------- *)

\* the example input of the specification
ExampleFile ==
    << <<"T","h","e"," ","c","a","t"," ","s","a","t",".">>,
       <<"T","H","E"," ","C","A","T"," ","r","a","n","!">> >>

LineSet ==
    { <<"a", " ", "#E4">>, <<"A", "-", "a", "1">> }

Files ==
    UNION {[1..n -> LineSet] : n \in 0..MaxFileLines} \cup {ExampleFile}

(* ---------------------------- state ------------------------------------ *)

VARIABLES
    argc,             \* main's argc
    threadCount,      \* lines 71-73
    fileLines,        \* the lines of the file named by argv[1]
    pc,               \* where main is
    exitCode,         \* <<c>> once main returned c, <<>> while it runs
    inputFile,        \* state flags of the std::ifstream (close keeps them)
    readPos,          \* lines std::getline has returned
    batch,            \* line 120
    leftover,         \* TRUE in the copy of the cycle at lines 161-186
    loopIdx,          \* the index of main's current for loop
    perThreadCounts,  \* line 91
    globalCounts,     \* line 96
    stripeLocks,      \* line 99: the holders of each stripe mutex
    ioMutex,          \* line 19: the holders of the print mutex
    mapWorkers,       \* line 123: the map threads of the current batch
    mergeWorkers,     \* lines 153/182: the merge threads of the current batch
    sortedWords,      \* line 195
    outputFile,       \* state of the std::ofstream
    outLines,         \* what was written to output.txt
    handed,           \* history: the batches handed to the map stage
    mergedSum,        \* history: per word, the additions completed at line 115
    mergedBy,         \* history: per table, the merge workers that took it
    created,          \* history: std::thread objects constructed
    cycles            \* history: map/merge cycles started

vars ==
    <<argc, threadCount, fileLines, pc, exitCode, inputFile, readPos, batch,
      leftover, loopIdx, perThreadCounts, globalCounts, stripeLocks, ioMutex,
      mapWorkers, mergeWorkers, sortedWords, outputFile, outLines, handed,
      mergedSum, mergedBy, created, cycles>>

Threads ==
    0..(threadCount - 1)

Init ==
    /\ argc \in 1..3
    /\ threadCount \in 1..MaxThreads
    /\ fileLines \in Files
    /\ pc = "args"
    /\ exitCode = <<>>
    /\ inputFile = "unopened"
    /\ readPos = 0
    /\ batch = <<>>
    /\ leftover = FALSE
    /\ loopIdx = 0
    /\ perThreadCounts = [t \in Threads |-> EmptyTable]
    /\ globalCounts = EmptyTable
    /\ stripeLocks = [s \in Threads |-> {}]
    /\ ioMutex = {}
    /\ mapWorkers = <<>>
    /\ mergeWorkers = <<>>
    /\ sortedWords = <<>>
    /\ outputFile = "unopened"
    /\ outLines = <<>>
    /\ handed = <<>>
    /\ mergedSum = EmptyTable
    /\ mergedBy = [t \in Threads |-> <<>>]
    /\ created = 0
    /\ cycles = 0


(* ---------------------------- main ------------------------------------- *)

\* lines 62-65
CheckArgs ==
    /\ pc = "args"
    /\ IF ArgcOk(argc)
       THEN pc' = "open_in" /\ exitCode' = exitCode
       ELSE pc' = "exit" /\ exitCode' = <<1>>
    /\ UNCHANGED <<argc, threadCount, fileLines, inputFile, readPos, batch,
                   leftover, loopIdx, perThreadCounts, globalCounts,
                   stripeLocks, ioMutex, mapWorkers, mergeWorkers, sortedWords,
                   outputFile, outLines, handed, mergedSum, mergedBy, created,
                   cycles>>

\* lines 84-88: the file may or may not open
OpenInput ==
    /\ pc = "open_in"
    /\ \E ok \in BOOLEAN :
         IF ok
         THEN inputFile' = "open" /\ pc' = "read" /\ exitCode' = exitCode
         ELSE inputFile' = "fail" /\ pc' = "exit" /\ exitCode' = <<1>>
    /\ UNCHANGED <<argc, threadCount, fileLines, readPos, batch, leftover,
                   loopIdx, perThreadCounts, globalCounts, stripeLocks,
                   ioMutex, mapWorkers, mergeWorkers, sortedWords, outputFile,
                   outLines, handed, mergedSum, mergedBy, created, cycles>>

\* lines 126-128: std::getline returns a line, which is pushed on the batch
ReadLine ==
    /\ pc = "read"
    /\ readPos < Len(fileLines)
    /\ readPos' = readPos + 1
    /\ batch' = Append(batch, fileLines[readPos + 1])
    /\ pc' = IF BatchFull(batch') THEN "map_clear" ELSE "read"
    /\ leftover' = FALSE
    /\ UNCHANGED <<argc, threadCount, fileLines, exitCode, inputFile, loopIdx,
                   perThreadCounts, globalCounts, stripeLocks, ioMutex,
                   mapWorkers, mergeWorkers, sortedWords, outputFile, outLines,
                   handed, mergedSum, mergedBy, created, cycles>>

\* line 126: std::getline reaches the end of the file, the loop ends
ReadEof ==
    /\ pc = "read"
    /\ readPos = Len(fileLines)
    /\ inputFile' = "eof"
    /\ pc' = "leftover"
    /\ UNCHANGED <<argc, threadCount, fileLines, exitCode, readPos, batch,
                   leftover, loopIdx, perThreadCounts, globalCounts,
                   stripeLocks, ioMutex, mapWorkers, mergeWorkers, sortedWords,
                   outputFile, outLines, handed, mergedSum, mergedBy, created,
                   cycles>>

\* line 126: a read error sets badbit; the stream converts to false and the
\* loop ends exactly as at the end of the file
ReadFail ==
    /\ pc = "read"
    /\ readPos < Len(fileLines)
    /\ inputFile' = "bad"
    /\ pc' = "leftover"
    /\ UNCHANGED <<argc, threadCount, fileLines, exitCode, readPos, batch,
                   leftover, loopIdx, perThreadCounts, globalCounts,
                   stripeLocks, ioMutex, mapWorkers, mergeWorkers, sortedWords,
                   outputFile, outLines, handed, mergedSum, mergedBy, created,
                   cycles>>

\* lines 161 and 188: the leftover batch, if any, gets a cycle of its own
Leftover ==
    /\ pc = "leftover"
    /\ IF HasLeftover(batch)
       THEN pc' = "map_clear" /\ leftover' = TRUE
       ELSE pc' = "sort" /\ leftover' = leftover
    /\ UNCHANGED <<argc, threadCount, fileLines, exitCode, inputFile, readPos,
                   batch, loopIdx, perThreadCounts, globalCounts, stripeLocks,
                   ioMutex, mapWorkers, mergeWorkers, sortedWords, outputFile,
                   outLines, handed, mergedSum, mergedBy, created, cycles>>

\* lines 130-137 / 162-168: every local table and the thread vector are
\* cleared for the batch
ClearLocals ==
    /\ pc = "map_clear"
    /\ perThreadCounts' = [t \in Threads |-> ClearTable(perThreadCounts[t])]
    /\ mapWorkers' = <<>>
    /\ loopIdx' = 0
    /\ pc' = "map_spawn"
    /\ handed' = Append(handed, batch)
    /\ cycles' = cycles + 1
    /\ UNCHANGED <<argc, threadCount, fileLines, exitCode, inputFile, readPos,
                   batch, leftover, globalCounts, stripeLocks, ioMutex,
                   mergeWorkers, sortedWords, outputFile, outLines, mergedSum,
                   mergedBy, created>>

\* the branch of line 141 / 172 is not taken for thread loopIdx
HasRange ==
    /\ loopIdx < threadCount
    /\ RangeStart(loopIdx, Len(batch), threadCount)
         < RangeEnd(loopIdx, Len(batch), threadCount)

\* lines 138-147 / 169-178: one map thread is started
SpawnMap ==
    /\ pc = "map_spawn"
    /\ HasRange
    /\ mapWorkers' = Append(mapWorkers,
         [table |-> loopIdx,
          start |-> RangeStart(loopIdx, Len(batch), threadCount),
          end   |-> RangeEnd(loopIdx, Len(batch), threadCount),
          at    |-> "lock",
          line  |-> RangeStart(loopIdx, Len(batch), threadCount)])
    /\ loopIdx' = loopIdx + 1
    /\ created' = created + 1
    /\ UNCHANGED <<argc, threadCount, fileLines, pc, exitCode, inputFile,
                   readPos, batch, leftover, perThreadCounts, globalCounts,
                   stripeLocks, ioMutex, mergeWorkers, sortedWords, outputFile,
                   outLines, handed, mergedSum, mergedBy, cycles>>

\* line 138 or 141 / 169 or 172: the loop ends or breaks
SpawnMapEnd ==
    /\ pc = "map_spawn"
    /\ ~HasRange
    /\ pc' = "map_join"
    /\ loopIdx' = 0
    /\ UNCHANGED <<argc, threadCount, fileLines, exitCode, inputFile, readPos,
                   batch, leftover, perThreadCounts, globalCounts, stripeLocks,
                   ioMutex, mapWorkers, mergeWorkers, sortedWords, outputFile,
                   outLines, handed, mergedSum, mergedBy, created, cycles>>

\* line 149 / 180: join returns for the next map thread, which has finished
JoinMap ==
    /\ pc = "map_join"
    /\ loopIdx < Len(mapWorkers)
    /\ Finished(mapWorkers[loopIdx + 1])
    /\ mapWorkers' = [mapWorkers EXCEPT ![loopIdx + 1].at = "joined"]
    /\ loopIdx' = loopIdx + 1
    /\ UNCHANGED <<argc, threadCount, fileLines, pc, exitCode, inputFile,
                   readPos, batch, leftover, perThreadCounts, globalCounts,
                   stripeLocks, ioMutex, mergeWorkers, sortedWords, outputFile,
                   outLines, handed, mergedSum, mergedBy, created, cycles>>

\* line 150 (the batch is cleared in the read loop only) and line 153 / 182
MapJoined ==
    /\ pc = "map_join"
    /\ MapsJoined(loopIdx, mapWorkers)
    /\ batch' = IF leftover THEN batch ELSE ClearBatch(batch)
    /\ mergeWorkers' = <<>>
    /\ mergedBy' = [t \in Threads |-> <<>>]
    /\ loopIdx' = 0
    /\ pc' = "merge_spawn"
    /\ UNCHANGED <<argc, threadCount, fileLines, exitCode, inputFile, readPos,
                   leftover, perThreadCounts, globalCounts, stripeLocks,
                   ioMutex, mapWorkers, sortedWords, outputFile, outLines,
                   handed, mergedSum, created, cycles>>

\* lines 154-155 / 183-184: one merge thread is started
SpawnMerge ==
    /\ pc = "merge_spawn"
    /\ loopIdx < MergeThreads(threadCount)
    /\ mergeWorkers' = Append(mergeWorkers,
         [id |-> loopIdx, at |-> "lock", table |-> 0, todo |-> {},
          key |-> <<>>, snap |-> {}])
    /\ loopIdx' = loopIdx + 1
    /\ created' = created + 1
    /\ UNCHANGED <<argc, threadCount, fileLines, pc, exitCode, inputFile,
                   readPos, batch, leftover, perThreadCounts, globalCounts,
                   stripeLocks, ioMutex, mapWorkers, sortedWords, outputFile,
                   outLines, handed, mergedSum, mergedBy, cycles>>

\* line 154 / 183: the loop ends
SpawnMergeEnd ==
    /\ pc = "merge_spawn"
    /\ loopIdx = MergeThreads(threadCount)
    /\ pc' = "merge_join"
    /\ loopIdx' = 0
    /\ UNCHANGED <<argc, threadCount, fileLines, exitCode, inputFile, readPos,
                   batch, leftover, perThreadCounts, globalCounts, stripeLocks,
                   ioMutex, mapWorkers, mergeWorkers, sortedWords, outputFile,
                   outLines, handed, mergedSum, mergedBy, created, cycles>>

\* line 156 / 185: join returns for the next merge thread
JoinMerge ==
    /\ pc = "merge_join"
    /\ loopIdx < Len(mergeWorkers)
    /\ Finished(mergeWorkers[loopIdx + 1])
    /\ mergeWorkers' = [mergeWorkers EXCEPT ![loopIdx + 1].at = "joined"]
    /\ loopIdx' = loopIdx + 1
    /\ UNCHANGED <<argc, threadCount, fileLines, pc, exitCode, inputFile,
                   readPos, batch, leftover, perThreadCounts, globalCounts,
                   stripeLocks, ioMutex, mapWorkers, sortedWords, outputFile,
                   outLines, handed, mergedSum, mergedBy, created, cycles>>

\* lines 157-158 / 186-188: back to the read loop, or on to the output
MergeJoined ==
    /\ pc = "merge_join"
    /\ MergesJoined(loopIdx, mergeWorkers)
    /\ pc' = IF leftover THEN "sort" ELSE "read"
    /\ UNCHANGED <<argc, threadCount, fileLines, exitCode, inputFile, readPos,
                   batch, leftover, loopIdx, perThreadCounts, globalCounts,
                   stripeLocks, ioMutex, mapWorkers, mergeWorkers, sortedWords,
                   outputFile, outLines, handed, mergedSum, mergedBy, created,
                   cycles>>

\* lines 195-200
SortWords ==
    /\ pc = "sort"
    /\ sortedWords' =
         SortPairs(Enumerate(globalCounts, DOMAIN globalCounts), <<>>)
    /\ pc' = "open_out"
    /\ UNCHANGED <<argc, threadCount, fileLines, exitCode, inputFile, readPos,
                   batch, leftover, loopIdx, perThreadCounts, globalCounts,
                   stripeLocks, ioMutex, mapWorkers, mergeWorkers, outputFile,
                   outLines, handed, mergedSum, mergedBy, created, cycles>>

\* lines 202-206: output.txt may or may not open
OpenOutput ==
    /\ pc = "open_out"
    /\ \E ok \in BOOLEAN :
         IF ok
         THEN outputFile' = "open" /\ pc' = "write" /\ exitCode' = exitCode
         ELSE outputFile' = "fail" /\ pc' = "exit" /\ exitCode' = <<1>>
    /\ UNCHANGED <<argc, threadCount, fileLines, inputFile, readPos, batch,
                   leftover, loopIdx, perThreadCounts, globalCounts,
                   stripeLocks, ioMutex, mapWorkers, mergeWorkers, sortedWords,
                   outLines, handed, mergedSum, mergedBy, created, cycles>>

\* lines 207-223: the header and one line per pair, then return 0
WriteOutput ==
    /\ pc = "write"
    /\ outLines' = <<"=== Final Word Counts (A -> Z) ===">> \o sortedWords
    /\ outputFile' = "closed"
    /\ pc' = "exit"
    /\ exitCode' = <<0>>
    /\ UNCHANGED <<argc, threadCount, fileLines, inputFile, readPos, batch,
                   leftover, loopIdx, perThreadCounts, globalCounts,
                   stripeLocks, ioMutex, mapWorkers, mergeWorkers, sortedWords,
                   handed, mergedSum, mergedBy, created, cycles>>

(* ---------------------------- map threads ------------------------------ *)

\* line 32: the map thread takes the print mutex
MapLockIo(k) ==
    /\ mapWorkers[k].at = "lock"
    /\ Unlocked(ioMutex)
    /\ ioMutex' = {<<"map", k>>}
    /\ mapWorkers' = [mapWorkers EXCEPT ![k].at = "print"]
    /\ UNCHANGED <<argc, threadCount, fileLines, pc, exitCode, inputFile,
                   readPos, batch, leftover, loopIdx, perThreadCounts,
                   globalCounts, stripeLocks, mergeWorkers, sortedWords,
                   outputFile, outLines, handed, mergedSum, mergedBy, created,
                   cycles>>

\* lines 33-37: it prints and releases the print mutex
MapPrint(k) ==
    /\ mapWorkers[k].at = "print"
    /\ ioMutex' = ReleaseIo(ioMutex, <<"map", k>>)
    /\ mapWorkers' = [mapWorkers EXCEPT ![k].at = "count"]
    /\ UNCHANGED <<argc, threadCount, fileLines, pc, exitCode, inputFile,
                   readPos, batch, leftover, loopIdx, perThreadCounts,
                   globalCounts, stripeLocks, mergeWorkers, sortedWords,
                   outputFile, outLines, handed, mergedSum, mergedBy, created,
                   cycles>>

\* lines 38-58: one line of the range is counted into the thread's table;
\* the thread returns after the last one
MapCountLine(k) ==
    /\ mapWorkers[k].at = "count"
    /\ mapWorkers[k].line < mapWorkers[k].end
    /\ perThreadCounts' =
         [perThreadCounts EXCEPT ![mapWorkers[k].table] =
            CountLine(@, batch[mapWorkers[k].line + 1])]
    /\ mapWorkers' =
         [mapWorkers EXCEPT
            ![k].line = @ + 1,
            ![k].at = IF mapWorkers[k].line + 1 < mapWorkers[k].end
                      THEN "count" ELSE "done"]
    /\ UNCHANGED <<argc, threadCount, fileLines, pc, exitCode, inputFile,
                   readPos, batch, leftover, loopIdx, globalCounts,
                   stripeLocks, ioMutex, mergeWorkers, sortedWords, outputFile,
                   outLines, handed, mergedSum, mergedBy, created, cycles>>

(* ---------------------------- merge threads ---------------------------- *)

Min(S) ==
    CHOOSE x \in S : \A y \in S : x <= y

\* the tables from index i on that line 110 lets the worker with this id take
TablesFrom(id, i) ==
    {j \in i..(threadCount - 1) : Assigned(j, id, threadCount)}

\* lines 109-111: where the loops of worker id stop next, starting at table
\* i: at the first table of the worker that has an entry, or at the end of
\* the loop (threadCount)
NextStop(id, i) ==
    LET full == {j \in TablesFrom(id, i) : DOMAIN perThreadCounts[j] # {}}
    IN  IF full = {} THEN threadCount ELSE Min(full)

\* lines 109-111: worker k goes through its tables from index i on, up to
\* the next entry to merge or to its return
GoOn(k, i) ==
    LET id == mergeWorkers[k].id
        stop == NextStop(id, i)
        seen == {j \in TablesFrom(id, i) : j <= stop}
    IN  /\ mergedBy' = [j \in Threads |->
              IF j \in seen THEN Append(mergedBy[j], id) ELSE mergedBy[j]]
        /\ mergeWorkers' = [mergeWorkers EXCEPT ![k] =
              IF stop = threadCount
              THEN [id |-> id, at |-> "done", table |-> stop, todo |-> {},
                    key |-> <<>>, snap |-> {}]
              ELSE [id |-> id, at |-> "entries", table |-> stop,
                    todo |-> DOMAIN perThreadCounts[stop],
                    key |-> <<>>, snap |-> {}]]

\* line 104: the merge thread takes the print mutex
MergeLockIo(k) ==
    /\ mergeWorkers[k].at = "lock"
    /\ Unlocked(ioMutex)
    /\ ioMutex' = {<<"merge", k>>}
    /\ mergeWorkers' = [mergeWorkers EXCEPT ![k].at = "print"]
    /\ UNCHANGED <<argc, threadCount, fileLines, pc, exitCode, inputFile,
                   readPos, batch, leftover, loopIdx, perThreadCounts,
                   globalCounts, stripeLocks, mapWorkers, sortedWords,
                   outputFile, outLines, handed, mergedSum, mergedBy, created,
                   cycles>>

\* lines 105-111: it prints, releases the print mutex and enters the loop
\* over the tables
MergePrint(k) ==
    /\ mergeWorkers[k].at = "print"
    /\ ioMutex' = ReleaseIo(ioMutex, <<"merge", k>>)
    /\ GoOn(k, 0)
    /\ UNCHANGED <<argc, threadCount, fileLines, pc, exitCode, inputFile,
                   readPos, batch, leftover, loopIdx, perThreadCounts,
                   globalCounts, stripeLocks, mapWorkers, sortedWords,
                   outputFile, outLines, handed, mergedSum, created, cycles>>

\* lines 111-114: the next entry of the table (the container's order is not
\* specified) and the lock of its stripe, once that lock is free
MergeAcquire(k) ==
    /\ mergeWorkers[k].at = "entries"
    /\ \E word \in mergeWorkers[k].todo :
         /\ Unlocked(stripeLocks[StripeOf(word, threadCount)])
         /\ stripeLocks' = [stripeLocks EXCEPT
                              ![StripeOf(word, threadCount)] = {k}]
         /\ mergeWorkers' = [mergeWorkers EXCEPT ![k].at = "find",
                                                 ![k].key = word]
    /\ UNCHANGED <<argc, threadCount, fileLines, pc, exitCode, inputFile,
                   readPos, batch, leftover, loopIdx, perThreadCounts,
                   globalCounts, ioMutex, mapWorkers, sortedWords, outputFile,
                   outLines, handed, mergedSum, mergedBy, created, cycles>>

\* the end of an iteration of the loop of line 111: the lock_guard releases
\* the stripe lock and the loops go on
EntryDone(k) ==
    /\ stripeLocks' = [stripeLocks EXCEPT
         ![StripeOf(mergeWorkers[k].key, threadCount)] = ReleaseStripe(@, k)]
    /\ IF mergeWorkers[k].todo = {mergeWorkers[k].key}
       THEN GoOn(k, mergeWorkers[k].table + 1)
       ELSE /\ mergeWorkers' = [mergeWorkers EXCEPT
                 ![k].at = "entries",
                 ![k].todo = @ \ {mergeWorkers[k].key},
                 ![k].key = <<>>,
                 ![k].snap = {}]
            /\ mergedBy' = mergedBy
    /\ mergedSum' =
         LET word == mergeWorkers[k].key
             n == perThreadCounts[mergeWorkers[k].table][word]
         IN  [w \in DOMAIN mergedSum \cup {word} |->
                (IF w \in DOMAIN mergedSum THEN mergedSum[w] ELSE 0)
                + (IF w = word THEN n ELSE 0)]

\* line 115, key present: operator[] finds the node and the count is added
MergeFound(k) ==
    /\ mergeWorkers[k].at = "find"
    /\ mergeWorkers[k].key \in DOMAIN globalCounts
    /\ globalCounts' =
         AddToNode(globalCounts, mergeWorkers[k].key,
                   perThreadCounts[mergeWorkers[k].table][mergeWorkers[k].key])
    /\ EntryDone(k)
    /\ UNCHANGED <<argc, threadCount, fileLines, pc, exitCode, inputFile,
                   readPos, batch, leftover, loopIdx, perThreadCounts,
                   ioMutex, mapWorkers, sortedWords, outputFile, outLines,
                   handed, created, cycles>>

\* line 115, key absent: the lookup of operator[] misses; the thread has
\* read the container's structure and goes on to insert
MergeMissed(k) ==
    /\ mergeWorkers[k].at = "find"
    /\ mergeWorkers[k].key \notin DOMAIN globalCounts
    /\ mergeWorkers' = [mergeWorkers EXCEPT ![k].at = "insert",
                                            ![k].snap = DOMAIN globalCounts]
    /\ UNCHANGED <<argc, threadCount, fileLines, pc, exitCode, inputFile,
                   readPos, batch, leftover, loopIdx, perThreadCounts,
                   globalCounts, stripeLocks, ioMutex, mapWorkers, sortedWords,
                   outputFile, outLines, handed, mergedSum, mergedBy, created,
                   cycles>>

\* line 115, key absent: operator[] links the new node and the count is
\* added to it
MergeInsert(k) ==
    /\ mergeWorkers[k].at = "insert"
    /\ globalCounts' =
         AddToNode(LinkNode(globalCounts, mergeWorkers[k].snap,
                            mergeWorkers[k].key),
                   mergeWorkers[k].key,
                   perThreadCounts[mergeWorkers[k].table][mergeWorkers[k].key])
    /\ EntryDone(k)
    /\ UNCHANGED <<argc, threadCount, fileLines, pc, exitCode, inputFile,
                   readPos, batch, leftover, loopIdx, perThreadCounts,
                   ioMutex, mapWorkers, sortedWords, outputFile, outLines,
                   handed, created, cycles>>

(* ---------------------------- specification ---------------------------- *)

MapStep ==
    \E k \in 1..Len(mapWorkers) :
        MapLockIo(k) \/ MapPrint(k) \/ MapCountLine(k)

MergeStep ==
    \E k \in 1..Len(mergeWorkers) :
        \/ MergeLockIo(k) \/ MergePrint(k) \/ MergeAcquire(k)
        \/ MergeFound(k) \/ MergeMissed(k) \/ MergeInsert(k)

MainStep ==
    \/ CheckArgs \/ OpenInput \/ ReadLine \/ ReadEof \/ ReadFail \/ Leftover
    \/ ClearLocals \/ SpawnMap \/ SpawnMapEnd \/ JoinMap \/ MapJoined
    \/ SpawnMerge \/ SpawnMergeEnd \/ JoinMerge \/ MergeJoined
    \/ SortWords \/ OpenOutput \/ WriteOutput

Next ==
    MainStep \/ MapStep \/ MergeStep

Spec ==
    Init /\ [][Next]_vars

\* the steps of the k-th map thread of the current batch
MapThread(k) ==
    /\ k \in 1..Len(mapWorkers)
    /\ MapLockIo(k) \/ MapPrint(k) \/ MapCountLine(k)

\* the steps of the k-th merge thread of the current batch
MergeThread(k) ==
    /\ k \in 1..Len(mergeWorkers)
    /\ \/ MergeLockIo(k) \/ MergePrint(k) \/ MergeAcquire(k)
       \/ MergeFound(k) \/ MergeMissed(k) \/ MergeInsert(k)

\* the program under a fair scheduler: main and every thread that can take
\* a step eventually takes one
FairSpec ==
    /\ Init /\ [][Next]_vars
    /\ WF_vars(MainStep)
    /\ \A k \in 1..MaxThreads :
         WF_vars(MapThread(k)) /\ WF_vars(MergeThread(k))


(* ---------------------------- properties ------------------------------- *)

Header ==
    "=== Final Word Counts (A -> Z) ==="

\* main returned 0 after reading the file to its end
FinishedWholeFile ==
    pc = "exit" /\ exitCode = <<0>> /\ inputFile = "eof"

\* the (word, count) pairs written after the header
Emitted ==
    IF outLines = <<>> THEN <<>> ELSE Tail(outLines)

RECURSIVE SumCounts(_)
SumCounts(pairs) ==
    IF pairs = <<>> THEN 0 ELSE Head(pairs)[2] + SumCounts(Tail(pairs))

RECURSIVE SequentialCounts(_, _, _)
\* the table one thread builds by tokenizing the lines in order
SequentialCounts(lines, i, table) ==
    IF i > Len(lines) THEN table
    ELSE SequentialCounts(lines, i + 1, CountLine(table, lines[i]))

ReferenceCounts ==
    SequentialCounts(fileLines, 1, EmptyTable)

RECURSIVE TableTotal(_, _)
TableTotal(table, keys) ==
    IF keys = {} THEN 0
    ELSE LET k == CHOOSE x \in keys : TRUE
         IN  table[k] + TableTotal(table, keys \ {k})

CountOf(table, word) ==
    IF word \in DOMAIN table THEN table[word] ELSE 0

\* a is before b in the lexicographic order of the byte values
LexBefore(a, b) ==
    \E j \in 1..(Len(b)) :
        /\ j <= Len(a) + 1
        /\ \A i \in 1..(j - 1) : a[i] = b[i]
        /\ j = Len(a) + 1 \/ ByteOf[a[j]] < ByteOf[b[j]]

RECURSIVE Concat(_)
Concat(seqs) ==
    IF seqs = <<>> THEN <<>> ELSE Head(seqs) \o Concat(Tail(seqs))

\* the least q with q * d >= n
CeilDiv(n, d) ==
    CHOOSE q \in 0..n : q * d >= n /\ (q = 0 \/ (q - 1) * d < n)

\* C1: when the program finishes after reading the whole file, the sum of
\* the counts written to the output equals the number of tokens a single
\* sequential pass of the tokenizer over the file produces
C1_CountConservation ==
    FinishedWholeFile =>
        SumCounts(Emitted) = TableTotal(ReferenceCounts, DOMAIN ReferenceCounts)

\* C2: in every state the count globalCounts holds for a word is the sum of
\* the additions completed for that word so far
C2_GlobalIsSumOfMerged ==
    \A word \in DOMAIN globalCounts \cup DOMAIN mergedSum :
        CountOf(globalCounts, word) = CountOf(mergedSum, word)

\* C3: the output is a function of the input file alone: for every thread
\* count and schedule it is the output of the run with a single thread
C3_Deterministic ==
    FinishedWholeFile =>
        outLines = <<Header>> \o
            SortPairs(Enumerate(ReferenceCounts, DOMAIN ReferenceCounts), <<>>)

\* C4: every key of a local table is in lowercase, and the example input
\* gives cat -> 2, ran -> 1, sat -> 1, the -> 2
C4_CaseFolded ==
    /\ \A t \in Threads : \A word \in DOMAIN perThreadCounts[t] :
           \A i \in 1..Len(word) : ByteOf[word[i]] \notin 65..90
    /\ (FinishedWholeFile /\ fileLines = ExampleFile) =>
           Emitted = << <<(<<"c", "a", "t">>), 2>>, <<(<<"r", "a", "n">>), 1>>,
                        <<(<<"s", "a", "t">>), 1>>, <<(<<"t", "h", "e">>), 2>> >>

\* C5: a read failure after a whole batch was mapped and merged ends the
\* program with a non-zero exit code and without any word counts written
C5_ReadFailureFatal ==
    (pc = "exit" /\ inputFile = "bad" /\ readPos >= BATCH_SIZE) =>
        exitCode # <<0>> /\ outLines = <<>>

\* C6: main returns 1 exactly when the argument count is wrong, the input
\* does not open or the output does not open, and 0 otherwise; no thread is
\* created and nothing is written unless the arguments are right and the
\* input opened
C6_ExitCodes ==
    /\ pc = "exit" =>
         /\ exitCode \in {<<0>>, <<1>>}
         /\ exitCode = <<1>> <=>
              (argc # 2 \/ inputFile = "fail" \/ outputFile = "fail")
    /\ (created > 0 \/ outLines # <<>> \/ outputFile # "unopened") =>
         (argc = 2 /\ inputFile \in {"open", "eof", "bad"})
    /\ exitCode = <<>> <=> pc # "exit"

C6_Witness ==
    /\ pc = "exit"
    /\ exitCode = <<1>>
    /\ outputFile = "fail"
    /\ created > 0

\* C7: the pairs written are strictly increasing by word in lexicographic
\* order and are exactly the entries of the final globalCounts, each once
C7_SortedOutput ==
    (pc = "exit" /\ exitCode = <<0>>) =>
        /\ \A i \in 1..(Len(Emitted) - 1) :
               LexBefore(Emitted[i][1], Emitted[i + 1][1])
        /\ {Emitted[i] : i \in 1..Len(Emitted)}
             = {<<word, globalCounts[word]>> : word \in DOMAIN globalCounts}
        /\ Len(Emitted) = Cardinality(DOMAIN globalCounts)

C7_Witness ==
    /\ pc = "exit"
    /\ exitCode = <<0>>
    /\ Len(Emitted) >= 3
    /\ \E i \in 1..Len(Emitted) : Emitted[i][2] > 1
    /\ \E i \in 1..Len(Emitted) : ByteOf[Emitted[i][1][1]] \in 65..90

\* C8: every batch handed to the map stage has at most BATCH_SIZE lines, and
\* the batches in order, followed by the lines still buffered, are the lines
\* read from the file: all of the file once its end was reached
C8_BatchesAreTheFile ==
    /\ Len(batch) <= BATCH_SIZE
    /\ \A i \in 1..Len(handed) : Len(handed[i]) \in 1..BATCH_SIZE
    /\ Concat(handed) = SubSeq(fileLines, 1, Len(Concat(handed)))
    /\ pc \in {"read", "leftover", "map_clear"} =>
         Concat(handed) \o batch = SubSeq(fileLines, 1, readPos)
    /\ pc \in {"sort", "open_out", "write"} =>
         Concat(handed) = SubSeq(fileLines, 1, readPos)
    /\ inputFile = "eof" => readPos = Len(fileLines)

C8_Witness ==
    /\ pc = "sort"
    /\ inputFile = "eof"
    /\ Len(fileLines) = BATCH_SIZE + 1
    /\ Len(handed) = 2
    /\ Concat(handed) = fileLines

\* C9: once the map threads of a batch are started, their ranges are
\* contiguous from 0 to the number of lines, each non-empty and of at most
\* ceil(lines / threads) lines; a thread that is not started, and every one
\* after it, would have had an empty range
C9_PartitionComplete ==
    pc = "map_join" =>
        LET n == Len(batch)
            q == CeilDiv(n, threadCount)
            m == Len(mapWorkers)
        IN  /\ m \in 1..threadCount
            /\ mapWorkers[1].start = 0
            /\ mapWorkers[m].end = n
            /\ \A k \in 1..m :
                 /\ mapWorkers[k].start < mapWorkers[k].end
                 /\ mapWorkers[k].end - mapWorkers[k].start <= q
                 /\ mapWorkers[k].table = k - 1
            /\ \A k \in 1..(m - 1) : mapWorkers[k + 1].start = mapWorkers[k].end
            /\ \A t \in m..(threadCount - 1) : t * q >= n

C9_Witness ==
    /\ pc = "map_join"
    /\ threadCount = 3
    /\ Len(batch) = 2
    /\ Len(mapWorkers) = 2

\* C10: in a merge phase no table is taken by a worker other than the one
\* whose id is the table index modulo the thread count, none is taken twice,
\* and once every merge thread has finished every table was taken once
C10_OneMergerPerTable ==
    /\ \A i \in Threads :
         /\ Len(mergedBy[i]) <= 1
         /\ \A j \in 1..Len(mergedBy[i]) : mergedBy[i][j] = i % threadCount
    /\ (/\ Len(mergeWorkers) = threadCount
        /\ \A k \in 1..Len(mergeWorkers) :
             mergeWorkers[k].at \in {"done", "joined"}) =>
         \A i \in Threads : mergedBy[i] = <<i % threadCount>>

C10_Witness ==
    /\ pc = "merge_join"
    /\ loopIdx = Len(mergeWorkers)
    /\ threadCount = 3
    /\ Len(mapWorkers) < threadCount
    /\ \A i \in Threads : Len(mergedBy[i]) = 1

\* the map threads of the current batch whose function has not returned
MapAlive ==
    {k \in 1..Len(mapWorkers) :
        mapWorkers[k].at \notin {"done", "joined"}
        \/ mapWorkers[k].line < mapWorkers[k].end}

\* the merge threads of the current batch whose function has not returned
MergeAlive ==
    {k \in 1..Len(mergeWorkers) :
        mergeWorkers[k].at \notin {"done", "joined"}
        \/ mergeWorkers[k].table # threadCount}

MapPhase ==
    pc \in {"map_spawn", "map_join"}

MergePhase ==
    pc \in {"merge_spawn", "merge_join"}

\* C11: a map thread and a merge thread are never alive together; while the
\* merge threads of a batch are started and joined every map thread of the
\* batch has returned and was joined; outside a merge phase (so when the
\* tables are cleared for the next batch and its map threads are started)
\* every merge thread has returned and was joined
C11_PhaseBarriers ==
    /\ MapAlive = {} \/ MergeAlive = {}
    /\ ~MapPhase =>
         /\ MapAlive = {}
         /\ \A k \in 1..Len(mapWorkers) : mapWorkers[k].at = "joined"
    /\ ~MergePhase =>
         /\ MergeAlive = {}
         /\ \A k \in 1..Len(mergeWorkers) : mergeWorkers[k].at = "joined"
    /\ MapPhase => Len(handed) = cycles /\ cycles >= 1

C11_Witness ==
    /\ pc = "map_join"
    /\ cycles = 2
    /\ MapAlive # {}
    /\ threadCount > 1
    /\ Len(mergeWorkers) = threadCount
    /\ \E k \in 1..Len(mergeWorkers) : mergeWorkers[k].id = threadCount - 1

\* the merge threads that are executing line 115
Updating ==
    {k \in 1..Len(mergeWorkers) : mergeWorkers[k].at \in {"find", "insert"}}

\* C12: a merge thread executing line 115 for a word holds the lock of the
\* stripe of that word; no stripe lock has two holders; no two threads
\* execute line 115 for the same word; and globalCounts changes only in a
\* step of such a thread, which adds to the entry of its word
C12_StripeLockDiscipline ==
    /\ [](/\ \A s \in Threads : Cardinality(stripeLocks[s]) <= 1
          /\ \A k \in Updating :
               stripeLocks[StripeOf(mergeWorkers[k].key, threadCount)] = {k}
          /\ \A k \in Updating : \A j \in Updating :
               mergeWorkers[k].key = mergeWorkers[j].key => k = j)
    /\ [][globalCounts' # globalCounts =>
            \E k \in Updating :
               LET word == mergeWorkers[k].key
               IN  /\ k \in stripeLocks[StripeOf(word, threadCount)]
                   /\ mergeWorkers'[k].at \notin {"find", "insert"}
                   /\ word \in DOMAIN globalCounts'
                   /\ globalCounts'[word] =
                        CountOf(globalCounts, word)
                        + perThreadCounts[mergeWorkers[k].table][word]]_vars

C12_Witness ==
    /\ Cardinality(Updating) = 2
    /\ \E k \in Updating : mergeWorkers[k].at = "insert"
    /\ \E k \in Updating :
         /\ mergeWorkers[k].at = "find"
         /\ mergeWorkers[k].key \in DOMAIN globalCounts
    /\ \E s \in Threads : stripeLocks[s] = {}

\* C13: while a merge thread inserts a new key into globalCounts (it has
\* missed the lookup of operator[] and links the node), no other merge
\* thread is reading or updating globalCounts
C13_InsertionExclusive ==
    \A k \in Updating :
        mergeWorkers[k].at = "insert" => Updating = {k}

\* the counts of the lines [from, to) of a batch, counted by one thread
RangeCounts(lines, from, to) ==
    SequentialCounts(SubSeq(lines, from + 1, to), 1, EmptyTable)

\* C14: during a merge phase the table of every map thread of the batch
\* holds exactly the counts of the thread's line range of that batch and
\* the table of a thread that was not started for the batch is empty; so
\* between two cycles the additions made by the merge threads are, word by
\* word, the counts of the batches handed over so far, each once
C14_LocalTablesOfBatch ==
    /\ MergePhase =>
         \A t \in Threads :
            perThreadCounts[t] =
               IF t < Len(mapWorkers)
               THEN RangeCounts(handed[Len(handed)], mapWorkers[t + 1].start,
                                mapWorkers[t + 1].end)
               ELSE EmptyTable
    /\ pc \in {"read", "leftover", "map_clear", "sort", "open_out", "write"} =>
         LET all == SequentialCounts(Concat(handed), 1, EmptyTable)
         IN  \A word \in DOMAIN all \cup DOMAIN mergedSum :
                CountOf(mergedSum, word) = CountOf(all, word)

C14_Witness ==
    /\ pc = "merge_join"
    /\ cycles = 2
    /\ threadCount = 2
    /\ Len(handed[1]) = 2
    /\ Len(mapWorkers) = 1
    /\ perThreadCounts[1] = EmptyTable
    /\ mergeWorkers[2].at = "done"
    /\ mergeWorkers[1].at = "find"

\* the mutexes merge thread k holds
HeldByMerge(k) ==
    {<<"stripe", s>> : s \in {x \in Threads : k \in stripeLocks[x]}}
    \cup (IF <<"merge", k>> \in ioMutex THEN {"io"} ELSE {})

\* the merge threads waiting in the lock() of line 104 or of line 114
MergeWaiting ==
    {k \in 1..Len(mergeWorkers) : mergeWorkers[k].at \in {"lock", "entries"}}

\* the map threads waiting in the lock() of line 32
MapWaiting ==
    {k \in 1..Len(mapWorkers) : mapWorkers[k].at = "lock"}

\* the stripes merge thread k may be waiting for: those of the entries it
\* has yet to merge from its table
WantedStripes(k) ==
    {StripeOf(word, threadCount) : word \in mergeWorkers[k].todo}

\* C15: no thread holds two mutexes; a map thread holds no stripe lock; a
\* thread waiting for a mutex holds none; every mutex that is held is held
\* by a thread that is not waiting; and as long as a thread has not
\* returned some thread can take a step
C15_OneMutexNoDeadlock ==
    /\ Cardinality(ioMutex) <= 1
    /\ \A k \in 1..Len(mergeWorkers) : Cardinality(HeldByMerge(k)) <= 1
    /\ \A k \in MergeWaiting : HeldByMerge(k) = {}
    /\ \A k \in MapWaiting : <<"map", k>> \notin ioMutex
    /\ \A s \in Threads : \A k \in stripeLocks[s] :
         /\ MergePhase
         /\ k \in Updating
    /\ \A who \in ioMutex :
         IF who[1] = "map"
         THEN MapPhase /\ mapWorkers[who[2]].at = "print"
         ELSE MergePhase /\ mergeWorkers[who[2]].at = "print"
    /\ (MapAlive # {} \/ MergeAlive # {}) => ENABLED (MapStep \/ MergeStep)

C15_Witness ==
    /\ \E k \in MergeWaiting :
         /\ mergeWorkers[k].at = "entries"
         /\ \A s \in WantedStripes(k) : stripeLocks[s] # {}
    /\ \E k \in Updating : mergeWorkers[k].todo # {mergeWorkers[k].key}

\* main is past the read loop and the leftover cycle
PastCycles ==
    pc \in {"sort", "open_out", "write"}
    \/ (pc = "exit" /\ outputFile # "unopened")

\* C16: no cycle is run on an empty batch; once the cycles are over, their
\* number is the number of lines read divided by BATCH_SIZE, rounded up, and
\* the lines read are the lines of the file when its end was reached (one
\* cycle for a file of exactly BATCH_SIZE lines, none for an empty file);
\* for an empty file no thread is created and a run that has written its
\* output has written the header alone and returned 0
C16_CycleCount ==
    /\ cycles = Len(handed)
    /\ \A i \in 1..Len(handed) : handed[i] # <<>>
    /\ cycles <= CeilDiv(readPos, BATCH_SIZE)
    /\ PastCycles =>
         /\ cycles = CeilDiv(readPos, BATCH_SIZE)
         /\ leftover <=> readPos % BATCH_SIZE # 0
    /\ (PastCycles /\ inputFile = "eof") =>
         /\ cycles = CeilDiv(Len(fileLines), BATCH_SIZE)
         /\ Len(fileLines) = BATCH_SIZE => cycles = 1
    /\ (fileLines = <<>> /\ inputFile # "bad") =>
         /\ cycles = 0
         /\ created = 0
         /\ mapWorkers = <<>> /\ mergeWorkers = <<>>
         /\ pc = "exit" /\ outputFile = "closed" =>
              outLines = <<Header>> /\ exitCode = <<0>>

C16_Witness ==
    /\ FinishedWholeFile
    /\ Len(fileLines) = BATCH_SIZE
    /\ cycles = 1
    /\ leftover = FALSE
    /\ created > 0

\* C17: from the sort on every map thread and every merge thread has
\* returned and was joined and no mutex is held, every line of the input
\* file was read, and the pairs taken from globalCounts for the output are
\* still its entries (it was not modified since)
C17_AggregatorAlone ==
    PastCycles =>
        /\ MapAlive = {} /\ MergeAlive = {}
        /\ \A k \in 1..Len(mapWorkers) : mapWorkers[k].at = "joined"
        /\ \A k \in 1..Len(mergeWorkers) : mergeWorkers[k].at = "joined"
        /\ ioMutex = {} /\ \A s \in Threads : stripeLocks[s] = {}
        /\ readPos = Len(fileLines)
        /\ pc # "sort" =>
             {sortedWords[i] : i \in 1..Len(sortedWords)}
               = {<<word, globalCounts[word]>> : word \in DOMAIN globalCounts}

\* C18: under fair scheduling every run reaches the return of main, with
\* every thread it started returned and joined and every mutex released
C18_Terminates ==
    <>(/\ pc = "exit"
       /\ exitCode # <<>>
       /\ MapAlive = {} /\ MergeAlive = {}
       /\ \A k \in 1..Len(mapWorkers) : mapWorkers[k].at = "joined"
       /\ \A k \in 1..Len(mergeWorkers) : mergeWorkers[k].at = "joined"
       /\ ioMutex = {} /\ \A s \in Threads : stripeLocks[s] = {})

C18_Witness ==
    /\ pc = "exit"
    /\ exitCode = <<0>>
    /\ cycles = 2
    /\ threadCount = MaxThreads
    /\ created > 2 * threadCount

\* the batch handed to the map stage in the current cycle
CurrentBatch ==
    handed[Len(handed)]

\* C19: from the hand-over of a batch to the end of its merge phase the
\* batch buffer holds the lines that were handed over
C19_FrozenUntilMerged ==
    (MapPhase \/ MergePhase) => batch = CurrentBatch

\* C19 (amended): the batch buffer holds the lines that were handed over
\* from the hand-over until every map thread of the batch was joined, so in
\* every state in which a map thread of the batch is alive; during the
\* merge phase it is empty in the read loop (line 150) and unchanged in the
\* cycle of the leftover batch
C19_FrozenWhileMapping ==
    /\ MapPhase => batch = CurrentBatch
    /\ MapAlive # {} => MapPhase /\ batch = CurrentBatch /\ batch # <<>>
    /\ \A k \in 1..Len(mapWorkers) :
         mapWorkers[k].at \in {"lock", "print", "count"} =>
            mapWorkers[k].end <= Len(batch)
    /\ MergePhase => batch = IF leftover THEN CurrentBatch ELSE <<>>

C19_Witness ==
    /\ pc = "map_join"
    /\ leftover = FALSE
    /\ \E k \in 1..Len(mapWorkers) :
         /\ mapWorkers[k].at = "count"
         /\ mapWorkers[k].line > mapWorkers[k].start
    /\ batch = CurrentBatch
    /\ Len(batch) = BATCH_SIZE

\* the std::thread objects of the current batch that are not yet joined
Unjoined ==
    {<<"map", k>> : k \in {j \in 1..Len(mapWorkers) :
                              mapWorkers[j].at # "joined"}}
    \cup {<<"merge", k>> : k \in {j \in 1..Len(mergeWorkers) :
                                    mergeWorkers[j].at # "joined"}}

====
